---- MODULE Spec2Model ----
(***************************************************************************)
(* Subsection activity tracking (start / heartbeat / complete) of the      *)
(* learning platform: the progress row of one (user, subsection) pair, the *)
(* slowapi limiter in front of the heartbeat endpoint, validate_activity,  *)
(* detect_bot_activity and the completion cascade.                         *)
(*                                                                         *)
(* Time is counted in ticks of 0.1 s, so that the float comparisons of the *)
(* code (time_diff < 10, 14.9 <= time_diff <= 15.1, int(time_increment))   *)
(* are exact integer comparisons.                                          *)
(***************************************************************************)
EXTENDS Integers, Sequences, FiniteSets, TLC

VARIABLES
    clock,         \* datetime.utcnow() / time.time() of the server, in ticks
    env,           \* the environment of the run: who calls, from where, how the clock moves
    progress,      \* SubsectionProgress rows, by <<user_id, subsection_id>>
    limits,        \* storage of the slowapi limiter, by rate-limit key
    activity_log,  \* rows of accepted heartbeats: [user_id, key, created_at]
    cascades,      \* number of update_section_progress/update_topic_progress calls, by key
    credited,      \* seconds that accepted heartbeats added, by key
    through,       \* heartbeat attempts the limiter let through within 60 s, by key
    tasks,         \* heartbeat requests in flight (concurrent handling)
    outcome,       \* the response of the last request handled
    cache,         \* expiry of the key captcha_required:{user_id}, by user
    calc,          \* one evaluation of calculate_subsection_completion: input and result
    client,        \* useSubsectionTracking in one mounted component: refs, timers, requests
    http,          \* one call of the client returned by getHttpClient: inputs and the request
    report         \* one call of progressApi.getStudentProgress: attempts and the result

\* the state of the server
server_vars == <<clock, env, progress, limits, activity_log, cascades, credited, through, tasks,
                 outcome, cache>>
\* what the server's handlers never touch
aside == <<calc, client, http, report>>

vars == <<server_vars, aside>>

----------------------------------------------------------------------------
(* Bounds of the model *)

MaxClock == 600        \* horizon of the short environments, ticks
SpacingClock == 350    \* horizon of the environment with 5 s and 15 s steps, ticks
WindowClock == 1300    \* horizon of the environment with 65 s steps, ticks
SkewClock == 400       \* horizon of the environment whose clock is set back, ticks
BotClock == 2000       \* horizon of the steady-cadence environment, ticks
LongClock == 72400     \* horizon of the environment with a two-hour gap, ticks
MaxLog == 11           \* rows kept in activity_log
MaxHistory == 2        \* entries kept in activity_sessions
MaxHits == 5           \* the limiter counter saturates here (anything > 4 is "over")
MaxTime == 620         \* largest time_spent_seconds the completion function is evaluated at

(* Program constants *)

RATE_LIMIT_PER_MINUTE == 4
MAX_ACTIVE_SESSIONS == 3
CAPTCHA_TTL == 3600
BOT_MIN_SAMPLES == 10
RECENT_INTERVALS == 5
HEARTBEAT_CREDIT == 15
DEFAULT_MIN_TIME == 30

Sec(n) == n * 10       \* n seconds in ticks

None == 0 - 1          \* Python None / SQL NULL of a timestamp or of an Integer column

Users == {"u1"}
Subsections == {"s1", "s2", "s3", "s4"}
Addresses == {"a1", "a2"}
Keys == Users \X Subsections
TaskIds == {"t1", "t2"}

----------------------------------------------------------------------------
(* Arithmetic helpers *)

Min(a, b) == IF a <= b THEN a ELSE b

RECURSIVE Gcd(_, _)
Gcd(a, b) == IF b = 0 THEN a ELSE Gcd(b, a % b)

\* Python int() of a number of ticks/10: truncation toward zero
IntSeconds(t) == IF t >= 0 THEN t \div 10 ELSE 0 - ((0 - t) \div 10)

\* A float percentage num/den, kept as a reduced fraction
Frac(num, den) == LET g == Gcd(num, den) IN <<num \div g, den \div g>>
FracGE(f, n) == f[1] >= n * f[2]
FracLE(f, n) == f[1] <= n * f[2]
FracEQ(f, n) == f[1] = n * f[2]

----------------------------------------------------------------------------
(* Data *)

\* A SubsectionProgress row; exists = FALSE stands for "no row for this key"
NoRow == [exists |-> FALSE, time_spent_seconds |-> 0, last_activity_at |-> None,
          session_start_at |-> None, is_completed |-> FALSE,
          completion_percentage |-> <<0, 1>>, activity_sessions |-> <<>>]

\* Column defaults of a freshly inserted row
NewRow == [NoRow EXCEPT !.exists = TRUE]

RowFields == {"exists", "time_spent_seconds", "last_activity_at", "session_start_at",
              "is_completed", "completion_percentage", "activity_sessions"}

\* Subsection.required_time_minutes / min_time_seconds as content authoring set them
PolicyMin30 == [required_time_minutes |-> None, min_time_seconds |-> 30]
PolicyMinUnset == [required_time_minutes |-> 0, min_time_seconds |-> None]
PolicyReq1 == [required_time_minutes |-> 1, min_time_seconds |-> 30]
PolicyReq5 == [required_time_minutes |-> 5, min_time_seconds |-> 30]
PolicyMin45 == [required_time_minutes |-> None, min_time_seconds |-> 45]
Policies == {PolicyMin30, PolicyMinUnset, PolicyReq1, PolicyReq5, PolicyMin45}

NoCalc == [subsection |-> PolicyMin30, t |-> 0, result |-> <<0, 1>>, prev |-> <<0, 1>>,
           done |-> FALSE]

\* an object without keys
EmptyObject == [key \in {} |-> 0]

\* no call of the HTTP client yet
NoHttp == [storage |-> EmptyObject, options |-> EmptyObject, body |-> "json",
           request |-> EmptyObject, done |-> FALSE]

\* no call of getStudentProgress yet
NoReport == [attempts |-> <<>>, result |-> EmptyObject, done |-> FALSE]

\* The client before the component is mounted, and the bounds of its model
MaxTimers == 3         \* interval timers that can exist at the same time
MaxInFlight == 2       \* requests of one kind awaiting their response
MaxTimeouts == 2       \* pending setTimeout(() => startTracking(), 30000)
MaxCompletes == 2      \* the count of complete requests saturates here

TimerIds == 1..MaxTimers
NoTimer == 0

NoClient ==
    [mounted |-> "setup",        \* "setup", "mounted" or "unmounted"
     listener |-> FALSE,         \* visibilitychange listener registered
     hidden |-> FALSE,           \* document.hidden
     isTracking |-> FALSE,
     heartbeatInterval |-> NoTimer,
     timers |-> {},              \* interval timers set and not cleared
     timeouts |-> 0,             \* restarts scheduled after a 429
     starts |-> 0,               \* startTracking calls awaiting the start response
     beats |-> 0,                \* sendHeartbeat calls awaiting the heartbeat response
     stops |-> 0,                \* stopTracking calls awaiting the complete response
     shown |-> "none",           \* the response progress.value was last taken from
     captcha |-> FALSE,          \* showCaptchaDialog() was called
     completes |-> 0,            \* complete requests sent since tracking was last started
     late |-> FALSE,             \* a start or heartbeat request was sent after the unmount
     awaiting |-> FALSE]         \* the tab was shown again while tracking, no heartbeat sent since

\* The response of a request: its operation and key, "ok" or the error kind, and whether
\* the request changed the stored row
\* the fields of SubsectionSessionResponse taken from the row
NoStats == [started_at |-> None, time_spent_seconds |-> 0, completion_percentage |-> <<0, 1>>]

Idle == [op |-> "none", key |-> <<"", "">>, kind |-> "none", changed |-> FALSE, stats |-> NoStats]
Response(op, k, kind, changed) ==
    [op |-> op, key |-> k, kind |-> kind, changed |-> changed, stats |-> NoStats]

NoTask == [busy |-> FALSE, key |-> <<"", "">>, snap |-> NoRow]

Rejections == {"RateLimited", "VerificationRequired", "InternalError", "SessionNotFound",
               "TooFrequent", "SuspiciousRegularity", "TooManyActiveSessions"}

----------------------------------------------------------------------------
(* Rate limiter: Limiter(key_func=get_remote_address), @limiter.limit("4/minute") *)

NoHits == [count |-> 0, expires |-> 0]

\* The counter of a key as the storage reports it at time now: an expired window reads 0
limiter_current(entry, now) == IF entry.expires <= now THEN NoHits ELSE entry

\* One hit: the counter goes up, the window of 60 s opens with its first hit
limiter_hit(entry, now) ==
    LET cur == limiter_current(entry, now)
    IN  [count   |-> Min(cur.count + 1, MaxHits),
         expires |-> IF cur.count = 0 THEN now + Sec(60) ELSE cur.expires]

\* The request passes while the counter, this hit included, is within the limit
limiter_allows(entry, now) == limiter_current(entry, now).count + 1 <= RATE_LIMIT_PER_MINUTE

\* key_func: the limiter counts per remote address of the request
rate_limit_key(k, addr) == addr

----------------------------------------------------------------------------
(* Completion percentage *)

\* Faulty variant: the result is not limited to 100
calculate_subsection_completion_unclamped(t, subsection) ==
    IF subsection.required_time_minutes \in {None, 0}
    THEN LET min_time == IF subsection.min_time_seconds \in {None, 0}
                         THEN DEFAULT_MIN_TIME ELSE subsection.min_time_seconds
         IN  IF t >= min_time THEN <<100, 1>> ELSE Frac(t * 100, min_time)
    ELSE Frac(t * 100, subsection.required_time_minutes * 60)

\* Faulty variant: the recommended time is taken as seconds, not minutes
calculate_subsection_completion_minutes(t, subsection) ==
    IF subsection.required_time_minutes \in {None, 0}
    THEN LET min_time == IF subsection.min_time_seconds \in {None, 0}
                         THEN DEFAULT_MIN_TIME ELSE subsection.min_time_seconds
         IN  IF t >= min_time THEN <<100, 1>> ELSE Frac(t * 100, min_time)
    ELSE LET completion == Frac(t * 100, subsection.required_time_minutes)
         IN  IF FracLE(completion, 100) THEN completion ELSE <<100, 1>>

calculate_subsection_completion(t, subsection) ==
    IF subsection.required_time_minutes \in {None, 0}
    THEN LET min_time == IF subsection.min_time_seconds \in {None, 0}
                         THEN DEFAULT_MIN_TIME ELSE subsection.min_time_seconds
         IN  IF t >= min_time THEN <<100, 1>> ELSE Frac(t * 100, min_time)
    ELSE LET required_seconds == subsection.required_time_minutes * 60
             completion == Frac(t * 100, required_seconds)
         IN  IF FracLE(completion, 100) THEN completion ELSE <<100, 1>>

----------------------------------------------------------------------------
(* Queries over the stored rows *)

\* Rows of accepted heartbeats of the user in the last `hours`
RECURSIVE get_user_recent_activities(_, _, _, _)
get_user_recent_activities(log, user_id, now, hours) ==
    IF log = <<>> THEN <<>>
    ELSE LET rest == get_user_recent_activities(Tail(log), user_id, now, hours)
         IN  IF Head(log).user_id = user_id /\ now - Head(log).created_at <= Sec(3600) * hours
             THEN <<Head(log)>> \o rest ELSE rest

RECURSIVE BeatsOf(_, _)
BeatsOf(log, k) ==
    IF log = <<>> THEN <<>>
    ELSE IF Head(log).key = k THEN <<Head(log).created_at>> \o BeatsOf(Tail(log), k)
         ELSE BeatsOf(Tail(log), k)

\* The last RECENT_INTERVALS intervals between consecutive accepted heartbeats of a row
get_recent_activity_intervals(log, k) ==
    LET beats == BeatsOf(log, k)
        all == [i \in 1..(IF Len(beats) = 0 THEN 0 ELSE Len(beats) - 1) |-> beats[i + 1] - beats[i]]
    IN  IF Len(all) <= RECENT_INTERVALS THEN all
        ELSE SubSeq(all, Len(all) - RECENT_INTERVALS + 1, Len(all))

\* Rows of the user with an open session
count_active_sessions(rows, user_id) ==
    Cardinality({k \in Keys : k[1] = user_id /\ rows[k].exists /\ rows[k].session_start_at # None})

InBand(d) == 149 <= d /\ d <= 151

----------------------------------------------------------------------------
(* validate_activity and detect_bot_activity *)

\* Faulty variant: check 1 (minimum interval) is missing
validate_activity_no_min(p, user_id, k, now, rows, log) ==
    LET time_diff == now - p.last_activity_at
        recent_intervals == get_recent_activity_intervals(log, k)
        regular == /\ p.last_activity_at # None
                   /\ InBand(time_diff)
                   /\ \A i \in 1..Len(recent_intervals) : InBand(recent_intervals[i])
        active_sessions == count_active_sessions(rows, user_id)
        too_long == p.session_start_at # None /\ now - p.session_start_at > Sec(7200)
    IN  IF regular THEN [verdict |-> "SuspiciousRegularity", row |-> p]
        ELSE IF active_sessions > MAX_ACTIVE_SESSIONS
             THEN [verdict |-> "TooManyActiveSessions", row |-> p]
        ELSE IF too_long THEN [verdict |-> "ok", row |-> [p EXCEPT !.session_start_at = now]]
        ELSE [verdict |-> "ok", row |-> p]

\* Faulty variant: check 4 accepts an over-long session without starting a new one
validate_activity_no_rotate(p, user_id, k, now, rows, log) ==
    LET v == validate_activity_no_min(p, user_id, k, now, rows, log)
    IN  IF p.last_activity_at # None /\ now - p.last_activity_at < Sec(10)
        THEN [verdict |-> "TooFrequent", row |-> p]
        ELSE [verdict |-> v.verdict, row |-> p]

\* Faulty variant: check 1 rejects below 5 s instead of 10 s
validate_activity_5s(p, user_id, k, now, rows, log) ==
    IF p.last_activity_at # None /\ now - p.last_activity_at < Sec(5)
    THEN [verdict |-> "TooFrequent", row |-> p]
    ELSE validate_activity_no_min(p, user_id, k, now, rows, log)

\* The verdict of validate_activity and the row as it leaves it. Checks 1 and 2
\* return False (here: the reason logged); check 3 resets the session and accepts.
validate_activity(p, user_id, k, now, rows, log) ==
    LET time_diff == now - p.last_activity_at
        too_frequent == p.last_activity_at # None /\ time_diff < Sec(10)
        recent_intervals == get_recent_activity_intervals(log, k)
        regular == /\ p.last_activity_at # None
                   /\ InBand(time_diff)
                   /\ \A i \in 1..Len(recent_intervals) : InBand(recent_intervals[i])
        active_sessions == count_active_sessions(rows, user_id)
        too_long == p.session_start_at # None /\ now - p.session_start_at > Sec(7200)
    IN  IF too_frequent THEN [verdict |-> "TooFrequent", row |-> p]
        ELSE IF regular THEN [verdict |-> "SuspiciousRegularity", row |-> p]
        ELSE IF active_sessions > MAX_ACTIVE_SESSIONS
             THEN [verdict |-> "TooManyActiveSessions", row |-> p]
        ELSE IF too_long THEN [verdict |-> "ok", row |-> [p EXCEPT !.session_start_at = now]]
        ELSE [verdict |-> "ok", row |-> p]

\* "clean" (False), "bot" (True) or "error": with 10 rows or more the interval list is
\* built from the name `activities`, which the function never binds (its rows are in
\* recent_activities), so the call raises before any standard deviation is computed.
detect_bot_activity(user_id, now, log) ==
    LET recent_activities == get_user_recent_activities(log, user_id, now, 1)
    IN  IF Len(recent_activities) < BOT_MIN_SAMPLES THEN "clean" ELSE "error"

----------------------------------------------------------------------------
(* The handlers, as functions of what they read *)

\* Faulty variant: start also counts as activity
StartRow_touch(p, now) ==
    LET row == IF p.exists THEN p ELSE NewRow
    IN  [row EXCEPT !.session_start_at = now, !.last_activity_at = now]

\* Faulty variant: every start begins from a fresh row
StartRow_reset(p, now) == [NewRow EXCEPT !.session_start_at = now]

\* start_subsection_viewing: the row (created on first use) with a new session
StartRow(p, now) ==
    LET row == IF p.exists THEN p ELSE NewRow
    IN  [row EXCEPT !.session_start_at = now]

\* cache.get: the key is there until it expires
cache_get(store, user_id, now) == store[user_id] # None /\ now < store[user_id]

\* cache.setex(cache_key, 3600, "1")
cache_setex(store, user_id, now) == [store EXCEPT ![user_id] = now + Sec(CAPTCHA_TTL)]

\* require_captcha_verification: the answer and the cache as the call leaves it
require_captcha_verification(user_id, now, store, log) ==
    IF cache_get(store, user_id, now) THEN [kind |-> "required", cache |-> store]
    ELSE LET suspicious_activity == detect_bot_activity(user_id, now, log)
         IN  IF suspicious_activity = "error" THEN [kind |-> "InternalError", cache |-> store]
             ELSE IF suspicious_activity = "bot"
             THEN [kind |-> "required", cache |-> cache_setex(store, user_id, now)]
             ELSE [kind |-> "clean", cache |-> store]

\* start_subsection_viewing: what the response reports of the row after the commit
StartStats(row) ==
    [started_at |-> row.session_start_at,
     time_spent_seconds |-> row.time_spent_seconds,
     completion_percentage |-> row.completion_percentage]

\* subsection_heartbeat, the gates before the row is loaded
HeartbeatGate(entry, user_id, now, log) ==
    IF ~limiter_allows(entry, now) THEN "RateLimited"
    ELSE LET bot == detect_bot_activity(user_id, now, log)
         IN  IF bot = "error" THEN "InternalError"
             ELSE IF bot = "bot" THEN "VerificationRequired"
             ELSE "pass"

\* Faulty variant: the interval is credited in full, without the limit of 60 s
HeartbeatUpdate_unclamped(p, now, subsection) ==
    LET time_increment == IF p.last_activity_at # None
                          THEN IntSeconds(now - p.last_activity_at)
                          ELSE HEARTBEAT_CREDIT
        t == p.time_spent_seconds + time_increment
        pct == calculate_subsection_completion(t, subsection)
        first == FracGE(pct, 100) /\ ~p.is_completed
    IN  [row |-> [p EXCEPT !.time_spent_seconds = t,
                           !.last_activity_at = now,
                           !.completion_percentage = pct,
                           !.is_completed = IF first THEN TRUE ELSE @],
         increment |-> time_increment,
         cascade |-> first]

\* Faulty variant: the cascade is not guarded by "not progress.is_completed"
HeartbeatUpdate_recascade(p, now, subsection) ==
    LET time_increment == IF p.last_activity_at # None
                          THEN IntSeconds(Min(now - p.last_activity_at, Sec(60)))
                          ELSE HEARTBEAT_CREDIT
        t == p.time_spent_seconds + time_increment
        pct == calculate_subsection_completion(t, subsection)
    IN  [row |-> [p EXCEPT !.time_spent_seconds = t,
                           !.last_activity_at = now,
                           !.completion_percentage = pct,
                           !.is_completed = IF FracGE(pct, 100) THEN TRUE ELSE @],
         increment |-> time_increment,
         cascade |-> FracGE(pct, 100)]

\* subsection_heartbeat, the update of an accepted heartbeat
HeartbeatUpdate(p, now, subsection) ==
    LET time_increment == IF p.last_activity_at # None
                          THEN IntSeconds(Min(now - p.last_activity_at, Sec(60)))
                          ELSE HEARTBEAT_CREDIT
        t == p.time_spent_seconds + time_increment
        pct == calculate_subsection_completion(t, subsection)
        first == FracGE(pct, 100) /\ ~p.is_completed
    IN  [row |-> [p EXCEPT !.time_spent_seconds = t,
                           !.last_activity_at = now,
                           !.completion_percentage = pct,
                           !.is_completed = IF first THEN TRUE ELSE @],
         increment |-> time_increment,
         cascade |-> first]

\* Faulty variant: last_activity_at is set, and flushed, before the validation
HeartbeatBody_touch(p, user_id, k, now, subsection, rows, log) ==
    IF ~p.exists
    THEN [kind |-> "SessionNotFound", row |-> p, increment |-> 0, cascade |-> FALSE]
    ELSE LET v == validate_activity(p, user_id, k, now, rows, log)
             u == HeartbeatUpdate(v.row, now, subsection)
         IN  IF v.verdict # "ok"
             THEN [kind |-> v.verdict, row |-> [p EXCEPT !.last_activity_at = now],
                   increment |-> 0, cascade |-> FALSE]
             ELSE [kind |-> "ok", row |-> u.row, increment |-> u.increment, cascade |-> u.cascade]

\* subsection_heartbeat from the loaded row on: 404, validation, update. The two
\* datetime.utcnow() reads of one request (validate_activity, then the update) fall in
\* the same tick.
HeartbeatBody(p, user_id, k, now, subsection, rows, log) ==
    IF ~p.exists
    THEN [kind |-> "SessionNotFound", row |-> p, increment |-> 0, cascade |-> FALSE]
    ELSE LET v == validate_activity(p, user_id, k, now, rows, log)
             u == HeartbeatUpdate(v.row, now, subsection)
         IN  IF v.verdict # "ok"
             THEN [kind |-> v.verdict, row |-> p, increment |-> 0, cascade |-> FALSE]
             ELSE [kind |-> "ok", row |-> u.row, increment |-> u.increment, cascade |-> u.cascade]

\* Faulty variant: validate_activity is consulted before detect_bot_activity
HeartbeatOutcome_validator_first(entry, p, user_id, k, now, subsection, rows, log) ==
    LET gate == HeartbeatGate(entry, user_id, now, log)
        b == HeartbeatBody(p, user_id, k, now, subsection, rows, log)
    IN  IF gate = "RateLimited"
        THEN [kind |-> gate, row |-> p, increment |-> 0, cascade |-> FALSE]
        ELSE IF b.kind # "ok" THEN b
        ELSE IF gate # "pass"
        THEN [kind |-> gate, row |-> p, increment |-> 0, cascade |-> FALSE]
        ELSE b

\* subsection_heartbeat as a whole: the first failing gate decides; a rejection raises
\* before session.commit(), so the row it leaves is the row it found
HeartbeatOutcome(entry, p, user_id, k, now, subsection, rows, log) ==
    LET gate == HeartbeatGate(entry, user_id, now, log)
        b == HeartbeatBody(p, user_id, k, now, subsection, rows, log)
    IN  IF gate # "pass"
        THEN [kind |-> gate, row |-> p, increment |-> 0, cascade |-> FALSE]
        ELSE b

\* Faulty variant: the closed session replaces the history instead of being appended
CompleteRow_overwrite(p, now) ==
    IF p.session_start_at # None
    THEN [p EXCEPT !.activity_sessions =
                       <<[start |-> p.session_start_at, end |-> now,
                          duration |-> IntSeconds(now - p.session_start_at)]>>,
                   !.session_start_at = None]
    ELSE p

\* Faulty variant: the history entry is appended without the test for an open session
CompleteRow_unguarded(p, now) ==
    [p EXCEPT !.activity_sessions =
                  Append(@, [start |-> p.session_start_at, end |-> now,
                             duration |-> IntSeconds(now - p.session_start_at)]),
              !.session_start_at = None]

\* complete_subsection_viewing: an open session moves to the history
CompleteRow(p, now) ==
    IF p.session_start_at # None
    THEN [p EXCEPT !.activity_sessions =
                       Append(@, [start |-> p.session_start_at, end |-> now,
                                  duration |-> IntSeconds(now - p.session_start_at)]),
                   !.session_start_at = None]
    ELSE p

\* session.commit(): the UPDATE carries the columns the handler changed on the row it loaded
Commit(stored, loaded, row) ==
    [f \in RowFields |-> IF row[f] # loaded[f] THEN row[f] ELSE stored[f]]

----------------------------------------------------------------------------
(* Environments: which requests arrive, from where, and how the clock moves *)

k1 == <<"u1", "s1">>
k2 == <<"u1", "s2">>
AllOps == {"start", "heartbeat", "complete"}

Environment(name, keys, addrs, steps, horizon, subsection, ops, restarts) ==
    [name |-> name, keys |-> keys, addrs |-> addrs, steps |-> steps, horizon |-> horizon,
     subsection |-> subsection, ops |-> ops, restarts |-> restarts]

\* sessions opened, closed and reopened around heartbeats 20 s apart
EnvSessions == Environment("sessions", {k1}, {"a1"}, {Sec(20)}, MaxClock, PolicyMin30, AllOps, TRUE)
\* heartbeats 5 s and 15 s apart
EnvSpacing == Environment("spacing", {k1}, {"a1"}, {Sec(5), Sec(15)}, SpacingClock, PolicyMinUnset,
                          {"start", "heartbeat"}, FALSE)
\* gaps longer than the limiter window, requests from two addresses, a recommended
\* time of one minute
EnvWindow == Environment("window", {k1}, {"a1", "a2"}, {Sec(65)}, WindowClock, PolicyReq1,
                         {"start", "heartbeat"}, FALSE)
\* a wall clock that is set back between requests
EnvSkew == Environment("skew", {k1}, {"a1"}, {Sec(20), 0 - Sec(20)}, SkewClock, PolicyMin30,
                       {"start", "heartbeat"}, FALSE)
\* one user with four subsections open at the same moment
EnvTabs == Environment("tabs", Keys, {"a1"}, {}, 0, PolicyMin30, {"start", "heartbeat"}, FALSE)
\* a steady cadence of 20 s kept up for 200 s
EnvCadence == Environment("cadence", {k1}, {"a1"}, {Sec(20)}, BotClock, PolicyMin30,
                          {"start", "heartbeat", "captcha"}, FALSE)
\* gaps of an hour and more
EnvLongGap == Environment("longgap", {k1, k2}, {"a1"}, {Sec(3601)}, LongClock, PolicyMin30,
                          {"start", "heartbeat"}, FALSE)
\* two heartbeat requests of one key handled at the same time
EnvRace == Environment("race", {k1}, {"a1"}, {Sec(20)}, MaxClock, PolicyMin30,
                       {"start", "heartbeat"}, FALSE)

Environments == {EnvSessions, EnvSpacing, EnvWindow, EnvSkew, EnvTabs, EnvCadence, EnvLongGap}

get_subsection(subsection_id) == env.subsection

----------------------------------------------------------------------------
(* State machine *)

InitIn(envs) ==
    /\ clock = 0
    /\ env \in envs
    /\ progress = [k \in Keys |-> NoRow]
    /\ limits = [a \in Addresses |-> NoHits]
    /\ activity_log = <<>>
    /\ cascades = [k \in Keys |-> 0]
    /\ credited = [k \in Keys |-> 0]
    /\ through = [k \in Keys |-> [count |-> 0, since |-> 0]]
    /\ tasks = [t \in TaskIds |-> NoTask]
    /\ outcome = Idle
    /\ cache = [u \in Users |-> None]

Init ==
    InitIn(Environments) /\ calc = NoCalc /\ client = NoClient /\ http = NoHttp /\ report = NoReport

\* One more attempt let through for a key: how many there were since the first of the
\* attempts that lie less than 60 s back
LetThrough(w, now) ==
    IF w.count = 0 \/ now - w.since >= Sec(60) \/ now < w.since
    THEN [count |-> 1, since |-> now]
    ELSE [count |-> Min(w.count + 1, MaxHits), since |-> w.since]

\* POST /subsections/progress/{id}/start
Start(k) ==
    /\ k \in env.keys
    /\ "start" \in env.ops
    /\ env.restarts \/ ~progress[k].exists
    /\ progress' = [progress EXCEPT ![k] = Commit(@, @, StartRow(@, clock))]
    /\ outcome' = [Response("start", k, "ok", StartRow(progress[k], clock) # progress[k])
                       EXCEPT !.stats = StartStats(StartRow(progress[k], clock))]
    /\ UNCHANGED <<aside, cache, clock, env, limits, activity_log, cascades, credited, through, tasks>>

\* what a heartbeat leaves behind besides the row
Recorded(k, b) ==
    /\ activity_log' = IF b.kind = "ok"
                       THEN Append(activity_log, [user_id |-> k[1], key |-> k, created_at |-> clock])
                       ELSE activity_log
    /\ cascades' = [cascades EXCEPT ![k] = IF b.cascade THEN @ + 1 ELSE @]
    /\ credited' = [credited EXCEPT ![k] = @ + b.increment]

\* POST /subsections/progress/{id}/heartbeat, handled from the first line to the last
Heartbeat(k, addr) ==
    /\ k \in env.keys
    /\ addr \in env.addrs
    /\ "heartbeat" \in env.ops
    /\ Len(activity_log) < MaxLog
    /\ LET rk == rate_limit_key(k, addr)
           b == HeartbeatOutcome(limits[rk], progress[k], k[1], k, clock, get_subsection(k[2]),
                                 progress, activity_log)
       IN  /\ limits' = [limits EXCEPT ![rk] = limiter_hit(@, clock)]
           /\ through' = [through EXCEPT ![k] = IF b.kind = "RateLimited" THEN @
                                                ELSE LetThrough(@, clock)]
           /\ outcome' = Response("heartbeat", k, b.kind, b.row # progress[k])
           /\ progress' = [progress EXCEPT ![k] = Commit(@, @, b.row)]
           /\ Recorded(k, b)
    /\ UNCHANGED <<aside, cache, clock, env, tasks>>

\* POST /subsections/progress/{id}/complete
Complete(k) ==
    /\ k \in env.keys
    /\ "complete" \in env.ops
    /\ progress[k].session_start_at # None => Len(progress[k].activity_sessions) < MaxHistory
    /\ IF ~progress[k].exists
       THEN /\ outcome' = Response("complete", k, "SessionNotFound", FALSE)
            /\ UNCHANGED progress
       ELSE /\ outcome' = Response("complete", k, "ok", CompleteRow(progress[k], clock) # progress[k])
            /\ progress' = [progress EXCEPT ![k] = Commit(@, @, CompleteRow(@, clock))]
    /\ UNCHANGED <<aside, cache, clock, env, limits, activity_log, cascades, credited, through, tasks>>

\* a call of require_captcha_verification for a user
RequireCaptcha(u) ==
    /\ "captcha" \in env.ops
    /\ \E k \in env.keys : k[1] = u
    /\ LET c == require_captcha_verification(u, clock, cache, activity_log)
       IN  /\ cache' = c.cache
           /\ outcome' = Response("captcha", <<u, "">>, c.kind, c.cache # cache)
    /\ UNCHANGED <<aside, clock, env, progress, limits, activity_log, cascades, credited,
                   through, tasks>>

\* time passes on the server between two requests
Tick(d) ==
    /\ d \in env.steps
    /\ clock + d >= 0
    /\ clock + d <= env.horizon
    /\ clock' = clock + d
    /\ outcome' = Idle
    /\ UNCHANGED <<aside, cache, env, progress, limits, activity_log, cascades, credited, through, tasks>>

Next ==
    \/ \E k \in Keys : Start(k)
    \/ \E k \in Keys, addr \in Addresses : Heartbeat(k, addr)
    \/ \E k \in Keys : Complete(k)
    \/ \E u \in Users : RequireCaptcha(u)
    \/ \E d \in env.steps : Tick(d)

Spec == Init /\ [][Next]_vars

----------------------------------------------------------------------------
(* Heartbeat requests handled at the same time: every request runs on its own
   database session, and the handler gives up control at each await. The row is
   loaded in one step and validated, updated and committed in a later one. *)

\* limiter, bot check and get_subsection_progress of one request
HeartbeatLoad(t, k, addr) ==
    /\ k \in env.keys
    /\ addr \in env.addrs
    /\ "heartbeat" \in env.ops
    /\ Len(activity_log) < MaxLog
    /\ ~tasks[t].busy
    /\ LET rk == rate_limit_key(k, addr)
           gate == HeartbeatGate(limits[rk], k[1], clock, activity_log)
           kind == IF gate # "pass" THEN gate
                   ELSE IF ~progress[k].exists THEN "SessionNotFound" ELSE "loaded"
       IN  /\ limits' = [limits EXCEPT ![rk] = limiter_hit(@, clock)]
           /\ through' = [through EXCEPT ![k] = IF gate = "RateLimited" THEN @
                                                ELSE LetThrough(@, clock)]
           /\ outcome' = Response("heartbeat", k, kind, FALSE)
           /\ tasks' = IF kind = "loaded"
                       THEN [tasks EXCEPT ![t] = [busy |-> TRUE, key |-> k, snap |-> progress[k]]]
                       ELSE tasks
    /\ UNCHANGED <<aside, cache, clock, env, progress, activity_log, cascades, credited>>

\* validate_activity, the update and session.commit() of a request that loaded its row
HeartbeatCommit(t) ==
    /\ tasks[t].busy
    /\ Len(activity_log) < MaxLog
    /\ LET k == tasks[t].key
           b == HeartbeatBody(tasks[t].snap, k[1], k, clock, get_subsection(k[2]),
                              progress, activity_log)
       IN  /\ outcome' = Response("heartbeat", k, b.kind, b.row # tasks[t].snap)
           /\ progress' = [progress EXCEPT ![k] = Commit(@, tasks[t].snap, b.row)]
           /\ Recorded(k, b)
    /\ tasks' = [tasks EXCEPT ![t] = NoTask]
    /\ UNCHANGED <<aside, cache, clock, env, limits, through>>

InitConc ==
    InitIn({EnvRace}) /\ calc = NoCalc /\ client = NoClient /\ http = NoHttp /\ report = NoReport

NextConc ==
    \/ \E k \in Keys : Start(k)
    \/ \E t \in TaskIds, k \in Keys, addr \in Addresses : HeartbeatLoad(t, k, addr)
    \/ \E t \in TaskIds : HeartbeatCommit(t)
    \/ \E d \in env.steps : Tick(d)

SpecConc == InitConc /\ [][NextConc]_vars

----------------------------------------------------------------------------
(* The completion function on its own: a subsection policy and a time spent are
   drawn, the percentage is computed, and the time spent then grows by what one
   heartbeat can credit (0 to 60 s), the percentage being computed again. *)

MaxCredit == 60

InitCompletion ==
    /\ InitIn({EnvSessions})
    /\ client = NoClient /\ http = NoHttp /\ report = NoReport
    /\ \E sub \in Policies, t \in 0..MaxTime :
           calc = [NoCalc EXCEPT !.subsection = sub, !.t = t]

\* the first evaluation
Evaluate ==
    /\ ~calc.done
    /\ LET completion == calculate_subsection_completion(calc.t, calc.subsection)
       IN  calc' = [calc EXCEPT !.result = completion, !.prev = completion, !.done = TRUE]
    /\ UNCHANGED <<server_vars, client, http, report>>

\* the evaluation after d more seconds were credited
Grow(d) ==
    /\ calc.done
    /\ calc.t + d <= MaxTime
    /\ calc' = [calc EXCEPT !.t = calc.t + d,
                            !.prev = calc.result,
                            !.result = calculate_subsection_completion(calc.t + d, calc.subsection)]
    /\ UNCHANGED <<server_vars, client, http, report>>

NextCompletion ==
    \/ Evaluate
    \/ \E d \in 0..MaxCredit : Grow(d)

SpecCompletion == InitCompletion /\ [][NextCompletion]_vars

----------------------------------------------------------------------------
(* The client: useSubsectionTracking inside the subsection viewer component. Every
   action is one run of the JavaScript event loop: a lifecycle hook, a timer
   callback, a DOM event or the continuation of an awaited request. *)

\* setInterval: an id that no live timer and no ref holds
FreeTimers(c) == TimerIds \ (c.timers \cup {c.heartbeatInterval})
NewTimer(c) == CHOOSE id \in FreeTimers(c) : \A other \in FreeTimers(c) : id <= other

\* startTracking up to its await: the start request goes out
startTracking(c) ==
    [c EXCEPT !.starts = @ + 1,
              !.late = @ \/ c.mounted = "unmounted"]

\* startTracking after the await: the response is shown, isTracking is set and a new
\* interval is stored in the ref (the old one, if any, is not cleared)
startTracking_resume(c) ==
    [c EXCEPT !.starts = @ - 1,
              !.shown = "start",
              !.isTracking = TRUE,
              !.completes = 0,
              !.heartbeatInterval = NewTimer(c),
              !.timers = @ \cup {NewTimer(c)}]

\* sendHeartbeat up to its await
sendHeartbeat(c) ==
    IF ~c.isTracking THEN c
    ELSE [c EXCEPT !.beats = @ + 1,
                   !.awaiting = FALSE,
                   !.late = @ \/ c.mounted = "unmounted"]

\* stopTracking up to its await (or to its end when nothing is awaited)
stopTracking(c) ==
    LET cleared == IF c.heartbeatInterval # NoTimer
                   THEN [c EXCEPT !.timers = @ \ {c.heartbeatInterval},
                                  !.heartbeatInterval = NoTimer]
                   ELSE c
    IN  IF cleared.isTracking
        THEN [cleared EXCEPT !.stops = @ + 1,
                             !.completes = Min(@ + 1, MaxCompletes)]
        ELSE [cleared EXCEPT !.isTracking = FALSE]

\* handleVisibilityChange
handleVisibilityChange(c) ==
    IF c.hidden
    THEN IF c.heartbeatInterval # NoTimer
         THEN [c EXCEPT !.timers = @ \ {c.heartbeatInterval}]
         ELSE c
    ELSE IF c.isTracking /\ c.heartbeatInterval = NoTimer
         THEN [c EXCEPT !.heartbeatInterval = NewTimer(c), !.timers = @ \cup {NewTimer(c)}]
         ELSE c

InitClient ==
    /\ InitIn({EnvSessions})
    /\ calc = NoCalc /\ http = NoHttp /\ report = NoReport
    /\ client = NoClient

\* the component is mounted: the composable's onMounted, then the component's
Mount ==
    /\ client.mounted = "setup"
    /\ client' = startTracking([client EXCEPT !.mounted = "mounted", !.listener = TRUE])
    /\ UNCHANGED <<server_vars, calc, http, report>>

\* the start request is answered
StartResponds(ok) ==
    /\ client.starts > 0
    /\ ok => FreeTimers(client) # {}
    /\ client' = IF ok THEN startTracking_resume(client)
                 ELSE [client EXCEPT !.starts = @ - 1]
    /\ UNCHANGED <<server_vars, calc, http, report>>

\* an interval timer fires
IntervalFires(id) ==
    /\ id \in client.timers
    /\ client.beats < MaxInFlight
    /\ client' = sendHeartbeat(client)
    /\ UNCHANGED <<server_vars, calc, http, report>>

\* the heartbeat request is answered: 200, 429, 403 or another error
HeartbeatResponds(status) ==
    /\ client.beats > 0
    /\ status = 429 => client.timeouts < MaxTimeouts
    /\ status \in {429, 403} /\ client.isTracking => client.stops < MaxInFlight
    /\ LET c == [client EXCEPT !.beats = @ - 1]
       IN  client' = CASE status = 200 -> [c EXCEPT !.shown = "heartbeat"]
                       [] status = 429 -> [stopTracking(c) EXCEPT !.timeouts = @ + 1]
                       [] status = 403 -> [stopTracking(c) EXCEPT !.captcha = TRUE]
                       [] OTHER -> c
    /\ UNCHANGED <<server_vars, calc, http, report>>

\* the complete request is answered (or fails): stopTracking goes on after its await
CompleteResponds ==
    /\ client.stops > 0
    /\ client' = [client EXCEPT !.stops = @ - 1, !.isTracking = FALSE]
    /\ UNCHANGED <<server_vars, calc, http, report>>

\* the restart scheduled after a 429 comes due
TimeoutFires ==
    /\ client.timeouts > 0
    /\ client.starts < MaxInFlight
    /\ client' = startTracking([client EXCEPT !.timeouts = @ - 1])
    /\ UNCHANGED <<server_vars, calc, http, report>>

\* the tab is hidden
Hide ==
    /\ ~client.hidden
    /\ LET c == [client EXCEPT !.hidden = TRUE]
       IN  client' = IF client.listener THEN handleVisibilityChange(c) ELSE c
    /\ UNCHANGED <<server_vars, calc, http, report>>

\* the tab is shown again
Show ==
    /\ client.hidden
    /\ client.listener /\ client.isTracking /\ client.heartbeatInterval = NoTimer
           => FreeTimers(client) # {}
    /\ LET c == [client EXCEPT !.hidden = FALSE,
                               !.awaiting = client.listener /\ client.isTracking]
       IN  client' = IF client.listener THEN handleVisibilityChange(c) ELSE c
    /\ UNCHANGED <<server_vars, calc, http, report>>

\* the component is unmounted: the component's onBeforeUnmount, then the composable's
\* two onUnmounted hooks
Unmount ==
    /\ client.mounted = "mounted"
    /\ client.stops = 0
    /\ client' = [stopTracking(stopTracking([client EXCEPT !.mounted = "unmounted"]))
                     EXCEPT !.listener = FALSE]
    /\ UNCHANGED <<server_vars, calc, http, report>>

NextClient ==
    \/ Mount
    \/ \E ok \in BOOLEAN : StartResponds(ok)
    \/ \E id \in TimerIds : IntervalFires(id)
    \/ \E status \in {200, 429, 403, 500} : HeartbeatResponds(status)
    \/ CompleteResponds
    \/ TimeoutFires
    \/ Hide
    \/ Show
    \/ Unmount

\* timers that are set fire and requests are answered; what the user does is not forced
SpecClient ==
    /\ InitClient
    /\ [][NextClient]_vars
    /\ \A id \in TimerIds : WF_vars(IntervalFires(id))
    /\ WF_vars(\E ok \in BOOLEAN : StartResponds(ok))
    /\ WF_vars(\E status \in {200, 429, 403, 500} : HeartbeatResponds(status))
    /\ WF_vars(CompleteResponds)
    /\ WF_vars(TimeoutFires)

----------------------------------------------------------------------------
(* The HTTP client of the frontend: getHttpClient and its four methods. Objects are
   functions from their keys; a request is the options object handed to $fetch. *)

DEFAULT_TIMEOUT == 60000

\* { ...base, ...over }: the keys of both, those of `over` winning
Spread(base, over) ==
    [key \in DOMAIN base \cup DOMAIN over |-> IF key \in DOMAIN over THEN over[key] ELSE base[key]]

\* localStorage / the cookie, with or without an access token
Storages == {EmptyObject, [access_token |-> ""], [access_token |-> "abc"]}

\* headers a caller passes in options
CustomHeaders ==
    {EmptyObject,
     [ContentType |-> "multipart/form-data"],
     [XRequestedWith |-> "XMLHttpRequest"],
     [Authorization |-> <<"Bearer", "other">>]}

\* options a caller passes; no options at all behave like the empty object
OptionSets ==
    {EmptyObject, [timeout |-> 5000]}
        \cup {[headers |-> h] : h \in CustomHeaders}
        \cup {[headers |-> h, timeout |-> 5000] : h \in CustomHeaders}

\* getAccessToken() is truthy
HasToken(storage) == "access_token" \in DOMAIN storage /\ storage.access_token # ""

\* options?.headers, undefined spreading to nothing
OptionHeaders(options) == IF "headers" \in DOMAIN options THEN options.headers ELSE EmptyObject

\* options?.timeout, undefined and 0 both being falsy
OptionTimeout(options) == IF "timeout" \in DOMAIN options THEN options.timeout ELSE 0

createHeaders(customHeaders, storage) ==
    LET headers == Spread([ContentType |-> "application/json"], customHeaders)
    IN  IF HasToken(storage)
        THEN Spread(headers, [Authorization |-> <<"Bearer", storage.access_token>>])
        ELSE headers

\* fetchWithTimeout: what reaches $fetch
fetchWithTimeout(options) ==
    Spread(options, [timeout |-> IF options.timeout = 0 THEN DEFAULT_TIMEOUT ELSE options.timeout])

http_get(options, storage) ==
    fetchWithTimeout(Spread([method |-> "GET",
                             headers |-> createHeaders(OptionHeaders(options), storage),
                             timeout |-> OptionTimeout(options)], options))

http_post(body, options, storage) ==
    fetchWithTimeout(Spread([method |-> "POST",
                             headers |-> createHeaders(OptionHeaders(options), storage),
                             body |-> body,
                             timeout |-> OptionTimeout(options)], options))

http_put(body, options, storage) ==
    fetchWithTimeout(Spread([method |-> "PUT",
                             headers |-> createHeaders(OptionHeaders(options), storage),
                             body |-> body,
                             timeout |-> OptionTimeout(options)], options))

http_delete(options, storage) ==
    fetchWithTimeout(Spread([method |-> "DELETE",
                             headers |-> createHeaders(OptionHeaders(options), storage),
                             timeout |-> OptionTimeout(options)], options))

InitHttp ==
    /\ InitIn({EnvSessions})
    /\ calc = NoCalc /\ client = NoClient /\ report = NoReport
    /\ \E storage \in Storages, options \in OptionSets, body \in {"json", "form"} :
           http = [NoHttp EXCEPT !.storage = storage, !.options = options, !.body = body]

Sent(request) ==
    /\ ~http.done
    /\ http' = [http EXCEPT !.request = request, !.done = TRUE]
    /\ UNCHANGED <<server_vars, calc, client, report>>

Get == Sent(http_get(http.options, http.storage))
Post == Sent(http_post(http.body, http.options, http.storage))
Put == Sent(http_put(http.body, http.options, http.storage))
Delete == Sent(http_delete(http.options, http.storage))

NextHttp == Get \/ Post \/ Put \/ Delete

SpecHttp == InitHttp /\ [][NextHttp]_vars

----------------------------------------------------------------------------
(* progressApi.getStudentProgress: the figures computed from a student's attempts *)

MaxAttempts == 2       \* attempts returned by getTestAttempts

TestIds == 0..2
Scores == {None, 0, 1, 4}          \* None: score is null
CompletedAts == {None, 1, 2}       \* None: completed_at is null

Attempts == [test_id : TestIds, score : Scores, completed_at : CompletedAts]

\* testAttempts.filter((attempt) => attempt.completed_at)
RECURSIVE completedOf(_)
completedOf(testAttempts) ==
    IF testAttempts = <<>> THEN <<>>
    ELSE (IF Head(testAttempts).completed_at # None THEN <<Head(testAttempts)>> ELSE <<>>)
             \o completedOf(Tail(testAttempts))

\* the reduce that builds testsScoreMap: test_id -> bestScore
RECURSIVE testsScoreMap(_, _)
testsScoreMap(map, attempts) ==
    IF attempts = <<>> THEN map
    ELSE LET attempt == Head(attempts)
             attemptScore == IF attempt.score = None THEN 0 ELSE attempt.score
             better == attempt.test_id \notin DOMAIN map \/ attemptScore > map[attempt.test_id]
         IN  testsScoreMap(IF better
                           THEN [t \in DOMAIN map \cup {attempt.test_id} |->
                                    IF t = attempt.test_id THEN attemptScore ELSE map[t]]
                           ELSE map,
                           Tail(attempts))

RECURSIVE SumBest(_, _)
SumBest(map, ids) ==
    IF ids = {} THEN 0
    ELSE LET t == CHOOSE x \in ids : TRUE IN map[t] + SumBest(map, ids \ {t})

\* Math.round of sum / n for a sum that is not negative
MathRound(sum, n) == (2 * sum + n) \div (2 * n)

\* [...completedAttempts].sort(by completed_at, latest first): the sort is stable
RECURSIVE sortedAttempts(_)
sortedAttempts(attempts) ==
    IF attempts = <<>> THEN <<>>
    ELSE LET first == CHOOSE i \in 1..Len(attempts) :
                         /\ \A j \in 1..Len(attempts) :
                                attempts[j].completed_at <= attempts[i].completed_at
                         /\ \A j \in 1..(i - 1) :
                                attempts[j].completed_at < attempts[i].completed_at
             rest == [j \in 1..(Len(attempts) - 1) |->
                         IF j < first THEN attempts[j] ELSE attempts[j + 1]]
         IN  <<attempts[first]>> \o sortedAttempts(rest)

getStudentProgress(testAttempts) ==
    LET completedAttempts == completedOf(testAttempts)
        map == testsScoreMap(EmptyObject, completedAttempts)
        completedTests == Cardinality(DOMAIN map)
        averageScore == IF completedTests > 0
                        THEN MathRound(SumBest(map, DOMAIN map), completedTests) ELSE 0
        sorted == sortedAttempts(completedAttempts)
        lastTestId == IF sorted = <<>> THEN None ELSE sorted[1].test_id
        lastTestBestScore == IF lastTestId \notin {None, 0} THEN map[lastTestId] ELSE None
        lastTestCompletedAt == IF sorted = <<>> THEN None ELSE sorted[1].completed_at
    IN  [completedTests |-> completedTests,
         averageScore |-> averageScore,
         lastTestId |-> lastTestId,
         lastTestBestScore |-> lastTestBestScore,
         lastTestCompletedAt |-> lastTestCompletedAt,
         testHistory |-> [i \in 1..Len(completedAttempts) |->
                             [testId |-> completedAttempts[i].test_id,
                              score |-> IF completedAttempts[i].score = None
                                        THEN 0 ELSE completedAttempts[i].score,
                              date |-> completedAttempts[i].completed_at]]]

InitReport ==
    /\ InitIn({EnvSessions})
    /\ calc = NoCalc /\ client = NoClient /\ http = NoHttp
    /\ \E n \in 0..MaxAttempts : \E attempts \in [1..n -> Attempts] :
           report = [NoReport EXCEPT !.attempts = attempts]

GetStudentProgress ==
    /\ ~report.done
    /\ report' = [report EXCEPT !.result = getStudentProgress(report.attempts), !.done = TRUE]
    /\ UNCHANGED <<server_vars, calc, client, http>>

NextReport == GetStudentProgress

SpecReport == InitReport /\ [][NextReport]_vars

----------------------------------------------------------------------------
(* Properties *)

Row(k) == progress[k]
IsStart(o, k) == o.op = "start" /\ o.key = k
IsHeartbeat(o, k) == o.op = "heartbeat" /\ o.key = k
IsComplete(o, k) == o.op = "complete" /\ o.key = k
Completed100(k) == Row(k).exists /\ FracEQ(Row(k).completion_percentage, 100)

\* C1: for every key the completion cascade has run exactly once when the row stands
\* at 100 percent and not at all before: it runs on the heartbeat that first raises
\* completion_percentage to 100 and on no later heartbeat of any session.
CascadeExactlyOnce ==
    \A k \in Keys : cascades[k] = IF Completed100(k) THEN 1 ELSE 0

\* C1 witness: a heartbeat accepted in a second session, after the row was completed
\* in an earlier one, with the cascade still counted once
CascadeOnceWitness ==
    /\ cascades[k1] = 1
    /\ outcome = Response("heartbeat", k1, "ok", TRUE)
    /\ Len(Row(k1).activity_sessions) = 1
    /\ Row(k1).session_start_at # None
    /\ Row(k1).session_start_at >= Row(k1).activity_sessions[1].end
    /\ Row(k1).time_spent_seconds >= 55

\* C2 (as claimed): with two heartbeats of one key in flight no increment of
\* time_spent_seconds is lost and the cascade does not run twice
ConcurrentHeartbeatsSerialized ==
    \A k \in Keys : cascades[k] <= 1 /\ Row(k).time_spent_seconds = credited[k]

\* C3: time_spent_seconds of a row never decreases, whatever request is handled and
\* whatever the clock reads, also when it reads earlier than last_activity_at
TimeSpentNeverDecreases ==
    [][\A k \in Keys : Row(k).exists =>
          /\ progress'[k].exists
          /\ progress'[k].time_spent_seconds >= Row(k).time_spent_seconds]_vars

\* C3 witness: a heartbeat handled at a clock reading before last_activity_at
TimeSpentWitness ==
    /\ IsHeartbeat(outcome, k1)
    /\ Row(k1).last_activity_at # None
    /\ clock < Row(k1).last_activity_at
    /\ Row(k1).time_spent_seconds > 0

\* C4: once is_completed is true no request sets it back to false
IsCompletedMonotonic ==
    [][\A k \in Keys : Row(k).is_completed => progress'[k].is_completed]_vars

\* C4 witness: a completed row on which a later session was started after the first
\* one was closed
IsCompletedWitness ==
    /\ Row(k1).is_completed
    /\ IsStart(outcome, k1) /\ outcome.kind = "ok" /\ outcome.changed
    /\ Len(Row(k1).activity_sessions) = 1

\* C5: completion_percentage lies in [0, 100], is_completed implies 100 percent, and
\* an accepted heartbeat that leaves the row at 100 percent leaves it completed
CompletionConsistent ==
    \A k \in Keys :
        /\ FracGE(Row(k).completion_percentage, 0)
        /\ FracLE(Row(k).completion_percentage, 100)
        /\ Row(k).is_completed => FracEQ(Row(k).completion_percentage, 100)
        /\ (outcome = Response("heartbeat", k, "ok", TRUE) /\ Completed100(k))
               => Row(k).is_completed

\* C5 witness: with a recommended time of 60 s, an accepted heartbeat takes the time
\* spent past it
CompletionWitness ==
    /\ env.subsection = PolicyReq1
    /\ outcome = Response("heartbeat", k1, "ok", TRUE)
    /\ Row(k1).time_spent_seconds > 60
    /\ Row(k1).is_completed

\* C6 (as claimed): a heartbeat for a row without an open session is refused
\* (SessionNotFound, or RateLimited when the limiter refuses it first) and leaves the
\* row as it was
HeartbeatNeedsOpenSession ==
    [][\A k \in Keys :
          (IsHeartbeat(outcome', k) /\ Row(k).session_start_at = None)
              => /\ outcome'.kind \in {"SessionNotFound", "RateLimited"}
                 /\ progress'[k] = Row(k)]_vars

TooFrequentRejected ==
    [][\A k \in Keys :
          (/\ IsHeartbeat(outcome', k)
           /\ Row(k).last_activity_at # None
           /\ clock - Row(k).last_activity_at < Sec(10))
              => /\ outcome'.kind \in {"TooFrequent", "RateLimited", "InternalError",
                                       "VerificationRequired"}
                 /\ (\E a \in env.addrs :
                        HeartbeatGate(limits[rate_limit_key(k, a)], k[1], clock, activity_log) = "pass"
                        /\ limits' = [limits EXCEPT ![rate_limit_key(k, a)] = limiter_hit(@, clock)])
                    => outcome'.kind = "TooFrequent"
                 /\ progress'[k] = Row(k)]_vars

\* C8 witness: a heartbeat 5 s after an accepted one, refused as TooFrequent
TooFrequentWitness ==
    /\ outcome = Response("heartbeat", k1, "TooFrequent", FALSE)
    /\ clock - Row(k1).last_activity_at = Sec(5)
    /\ Row(k1).time_spent_seconds > 0

\* C9: a refused heartbeat, whatever the reason, leaves every row (session_start_at
\* included), the activity rows and the cascade count as they were
RejectedHeartbeatChangesNothing ==
    [][(outcome'.op = "heartbeat" /\ outcome'.kind \in Rejections)
          => /\ progress' = progress
             /\ ~outcome'.changed
             /\ activity_log' = activity_log
             /\ cascades' = cascades
             /\ credited' = credited]_vars

\* C9 witness: a heartbeat refused while its session is more than 7200 s old, the
\* case in which validate_activity would have reset session_start_at
RejectedWitness ==
    /\ IsHeartbeat(outcome, k1)
    /\ outcome.kind \in Rejections
    /\ Row(k1).session_start_at # None
    /\ clock - Row(k1).session_start_at > Sec(7200)

\* C10 (as claimed): for one key the limiter lets at most 4 heartbeat attempts through
\* within 60 s
RateLimitPerKey ==
    \A k \in Keys : through[k].count <= RATE_LIMIT_PER_MINUTE

\* C11: with no recommended time the percentage is 100 from min_time_seconds (30 when
\* unset) on and 100 * t / min below it; with a recommended time of r minutes it is
\* min(100, 100 * t / (60 * r)); e.g. min 30, t 15: 50; r 5, t 150: 50; r 5, t 600: 100
CompletionFormula ==
    calc.done =>
        LET r == calc.subsection.required_time_minutes
            m == IF calc.subsection.min_time_seconds \in {None, 0}
                 THEN 30 ELSE calc.subsection.min_time_seconds
            t == calc.t
            pct == calc.result
        IN  /\ (r \in {None, 0} /\ t >= m) => pct = <<100, 1>>
            /\ (r \in {None, 0} /\ t < m) => pct[1] * m = pct[2] * 100 * t
            /\ (r \notin {None, 0} /\ t >= 60 * r) => pct = <<100, 1>>
            /\ (r \notin {None, 0} /\ t < 60 * r) => pct[1] * 60 * r = pct[2] * 100 * t
            /\ (calc.subsection = PolicyMin30 /\ t = 15) => pct = <<50, 1>>
            /\ (calc.subsection = PolicyReq5 /\ t = 150) => pct = <<50, 1>>
            /\ (calc.subsection = PolicyReq5 /\ t = 600) => pct = <<100, 1>>

\* C11 witness: the evaluation at r = 5 minutes and t = 600 s, where the clamp acts
CompletionFormulaWitness ==
    calc.done /\ calc.subsection = PolicyReq5 /\ calc.t = 600 /\ calc.result = <<100, 1>>

\* C12: for a fixed policy the percentage never goes down when the time spent grows
\* (by any credit of 0 to 60 s, as the heartbeats of a row make it grow) and never
\* exceeds 100
CompletionMonotone ==
    [][(calc.done /\ calc'.done) =>
          /\ calc'.result[1] * calc.result[2] >= calc.result[1] * calc'.result[2]
          /\ FracLE(calc'.result, 100)
          /\ FracLE(calc.result, 100)]_vars

\* C12 witness: the time spent grew past the recommended time, the percentage going
\* from below 100 to 100
CompletionMonotoneWitness ==
    /\ calc.done /\ calc.subsection = PolicyReq1 /\ calc.t > 60
    /\ calc.result = <<100, 1>> /\ calc.prev # calc.result

\* C13 (as claimed): start on a row whose session is open first closes that session,
\* appending exactly one history entry of duration min(now - old session_start_at, 7200 s),
\* and then sets session_start_at to now
StartClosesStaleSession ==
    [][\A k \in Keys :
          (IsStart(outcome', k) /\ Row(k).exists /\ Row(k).session_start_at # None) =>
              /\ Len(progress'[k].activity_sessions) = Len(Row(k).activity_sessions) + 1
              /\ progress'[k].activity_sessions[Len(progress'[k].activity_sessions)].duration
                     = Min(IntSeconds(clock - Row(k).session_start_at), 7200)
              /\ progress'[k].session_start_at = clock]_vars

BeforeValidator == {"RateLimited", "InternalError", "VerificationRequired", "SessionNotFound"}

\* C15 (as claimed): a heartbeat whose interval lies in [14.9 s, 15.1 s] is rejected as
\* SuspiciousRegularity exactly when the last 5 recorded intervals all lie in that band;
\* while fewer than 5 intervals are recorded it is accepted
RegularityNeedsFullWindow ==
    [][\A k \in Keys :
          (/\ IsHeartbeat(outcome', k)
           /\ outcome'.kind \notin BeforeValidator
           /\ Row(k).last_activity_at # None
           /\ InBand(clock - Row(k).last_activity_at)) =>
              LET recorded == get_recent_activity_intervals(activity_log, k)
              IN  outcome'.kind = "SuspiciousRegularity"
                      <=> /\ Len(recorded) = RECENT_INTERVALS
                          /\ \A i \in 1..Len(recorded) : InBand(recorded[i])]_vars

\* C16 (as claimed): with three sessions of a user open on other subsections, start on
\* a fourth is rejected with TooManyActiveSessions and opens nothing, and no heartbeat
\* of an open session is refused for the number of sessions
FourthSessionRejected ==
    [][\A k \in Keys :
          /\ (/\ IsStart(outcome', k)
              /\ Row(k).session_start_at = None
              /\ count_active_sessions(progress, k[1]) >= MAX_ACTIVE_SESSIONS) =>
                 /\ outcome'.kind = "TooManyActiveSessions"
                 /\ progress' = progress
          /\ IsHeartbeat(outcome', k) => outcome'.kind # "TooManyActiveSessions"]_vars

\* C17: a heartbeat that the earlier gates and checks 1 to 3 let pass and that arrives
\* more than 7200 s after session_start_at is accepted, session_start_at becomes the
\* time of the heartbeat and at most 60 s are credited
LongSessionRotates ==
    [][\A k \in Keys :
          (/\ IsHeartbeat(outcome', k)
           /\ outcome'.kind \notin BeforeValidator
           /\ Row(k).session_start_at # None
           /\ clock - Row(k).session_start_at > Sec(7200)
           /\ Row(k).last_activity_at # None => clock - Row(k).last_activity_at >= Sec(10)
           /\ ~(/\ Row(k).last_activity_at # None
                /\ InBand(clock - Row(k).last_activity_at)
                /\ \A i \in 1..Len(get_recent_activity_intervals(activity_log, k)) :
                       InBand(get_recent_activity_intervals(activity_log, k)[i]))
           /\ count_active_sessions(progress, k[1]) <= MAX_ACTIVE_SESSIONS) =>
              /\ outcome'.kind = "ok"
              /\ progress'[k].session_start_at = clock
              /\ progress'[k].time_spent_seconds >= Row(k).time_spent_seconds
              /\ progress'[k].time_spent_seconds - Row(k).time_spent_seconds <= 60]_vars

\* C17 witness: a session started two hours and more ago has just been given its
\* second heartbeat: 15 s and then 60 s are credited and the session starts anew
LongSessionWitness ==
    /\ outcome = Response("heartbeat", k1, "ok", TRUE)
    /\ clock > Sec(7200)
    /\ Row(k1).session_start_at = clock
    /\ Row(k1).time_spent_seconds = 75

\* rejections that come from the call of detect_bot_activity
BotGate == {"VerificationRequired", "InternalError"}

\* C18 (as claimed): the heartbeat on which detect_bot_activity does not find the user
\* clean is not refused for it; only later heartbeats are
BotFlagDoesNotReject ==
    [][\A k \in Keys :
          (/\ IsHeartbeat(outcome', k)
           /\ detect_bot_activity(k[1], clock, activity_log) # "clean") =>
              outcome'.kind \notin BotGate]_vars

\* the heartbeat handled in this step came from address addr
HandledFrom(k, addr) ==
    /\ IsHeartbeat(outcome', k)
    /\ limits' = [limits EXCEPT ![rate_limit_key(k, addr)] = limiter_hit(@, clock)]

\* what validate_activity says of the row of k as it stands
Verdict(k) == validate_activity(Row(k), k[1], k, clock, progress, activity_log).verdict

RateLimitIndependentPerKey ==
    [][\A k \in Keys :
          (IsHeartbeat(outcome', k) /\ outcome'.kind = "RateLimited") =>
              /\ through[k].count >= RATE_LIMIT_PER_MINUTE
              /\ clock - through[k].since < Sec(60)]_vars

\* whole seconds of d ticks, limited to the range 0..60
Clamp60(d) == IF d < 0 THEN 0 ELSE IF d >= Sec(60) THEN 60 ELSE d \div Sec(1)

\* C21: an accepted heartbeat on a row whose last_activity_at is set adds
\* clamp(now - last_activity_at, 0, 60) whole seconds to time_spent_seconds, never more
\* than 60 and never a negative amount, and sets last_activity_at to now
HeartbeatCreditClamped ==
    [][\A k \in Keys :
          (/\ IsHeartbeat(outcome', k)
           /\ outcome'.kind = "ok"
           /\ Row(k).last_activity_at # None) =>
              /\ progress'[k].time_spent_seconds - Row(k).time_spent_seconds
                     = Clamp60(clock - Row(k).last_activity_at)
              /\ progress'[k].time_spent_seconds - Row(k).time_spent_seconds \in 0..60
              /\ progress'[k].last_activity_at = clock]_vars

\* C21 witness: the second heartbeat of a row came 65 s after the first and was
\* credited 60 s on top of the 15 s of the first
HeartbeatCreditWitness ==
    /\ outcome = Response("heartbeat", k1, "ok", TRUE)
    /\ Len(BeatsOf(activity_log, k1)) = 2
    /\ BeatsOf(activity_log, k1)[2] - BeatsOf(activity_log, k1)[1] = Sec(65)
    /\ Row(k1).time_spent_seconds = 75
    /\ Row(k1).last_activity_at = clock

\* C22 (as claimed): the first accepted heartbeat of every session credits exactly 15 s,
\* also in a later session of the row, where last_activity_at is the time of a
\* heartbeat that came before the session was started
FirstHeartbeatCredits15 ==
    [][\A k \in Keys :
          (/\ IsHeartbeat(outcome', k)
           /\ outcome'.kind = "ok"
           /\ Row(k).session_start_at # None
           /\ (Row(k).last_activity_at = None
                  \/ Row(k).last_activity_at < Row(k).session_start_at)) =>
              progress'[k].time_spent_seconds - Row(k).time_spent_seconds = 15]_vars

\* C23: start sets session_start_at to now and nothing else on an existing row
\* (last_activity_at, time_spent_seconds, completion_percentage, is_completed and the
\* history stay), creates the row with time_spent_seconds = 0 on first use, and the
\* figures it returns are the stored ones
StartChangesOnlySession ==
    [][\A k \in Keys :
          IsStart(outcome', k) =>
              /\ progress'[k].exists
              /\ progress'[k].session_start_at = clock
              /\ Row(k).exists =>
                     \A f \in RowFields \ {"session_start_at"} : progress'[k][f] = Row(k)[f]
              /\ ~Row(k).exists =>
                     /\ progress'[k].time_spent_seconds = 0
                     /\ progress'[k].last_activity_at = None
                     /\ ~progress'[k].is_completed
              /\ outcome'.stats.started_at = progress'[k].session_start_at
              /\ outcome'.stats.time_spent_seconds = progress'[k].time_spent_seconds
              /\ outcome'.stats.completion_percentage = progress'[k].completion_percentage]_vars

\* C23 witness: a session has just been started on a row that already carries credited
\* time and an earlier heartbeat
StartFrameWitness ==
    /\ IsStart(outcome, k1) /\ outcome.changed
    /\ Row(k1).session_start_at = clock
    /\ Row(k1).last_activity_at # None /\ Row(k1).last_activity_at < clock
    /\ Row(k1).time_spent_seconds >= 15
    /\ outcome.stats.time_spent_seconds = Row(k1).time_spent_seconds

\* the intervals between consecutive rows of a list of heartbeats
IntervalsOf(acts) ==
    [i \in 1..(IF Len(acts) = 0 THEN 0 ELSE Len(acts) - 1) |->
        acts[i + 1].created_at - acts[i].created_at]

RECURSIVE SumOf(_)
SumOf(xs) == IF xs = <<>> THEN 0 ELSE Head(xs) + SumOf(Tail(xs))

RECURSIVE SumSq(_)
SumSq(xs) == IF xs = <<>> THEN 0 ELSE Head(xs) * Head(xs) + SumSq(Tail(xs))

\* the sample standard deviation of xs (in ticks, two values or more) is below 1 s:
\* (sum of squares - square of sum / n) / (n - 1) < Sec(1)^2
StdevBelow1(xs) ==
    Len(xs) * SumSq(xs) - SumOf(xs) * SumOf(xs) < Sec(1) * Sec(1) * Len(xs) * (Len(xs) - 1)

\* C24 (as claimed): detect_bot_activity never flags a user with fewer than 10 accepted
\* heartbeats in the last hour, and with 10 or more it flags the user exactly when the
\* sample standard deviation of the intervals between them is below 1 s
BotDetectorByStdev ==
    \A u \in Users :
        LET acts == get_user_recent_activities(activity_log, u, clock, 1)
            flagged == detect_bot_activity(u, clock, activity_log) = "bot"
        IN  /\ Len(acts) < 10 => ~flagged
            /\ Len(acts) >= 10 => (flagged <=> StdevBelow1(IntervalsOf(acts)))

IsCaptcha(o, u) == o.op = "captcha" /\ o.key[1] = u

NoRequestAfterUnmount ==
    client.mounted = "unmounted" => ~client.late

\* C27 (as claimed): when the tab is shown again while isTracking is true, a heartbeat
\* is eventually sent (unless tracking ends or the component goes away first), and
\* never is more than one heartbeat timer set
HeartbeatsResumeWhenVisible ==
    /\ (client.awaiting /\ client.isTracking /\ client.mounted = "mounted")
           ~> (~client.awaiting \/ ~client.isTracking \/ client.mounted # "mounted")
    /\ [](Cardinality(client.timers) <= 1)

\* C28 (as claimed): the client sends at most one complete request per started tracking
\* session, also when stopTracking runs a second time before the first complete
\* request has returned
CompleteSentOnce ==
    client.completes <= 1

\* C29 (as claimed): with an access token stored, every request sent through get, post,
\* put or delete carries Authorization: Bearer <token>, also when the caller passes
\* headers of their own, which are merged into the default headers: the caller's
\* headers are there and Content-Type stays application/json unless the caller set it
AuthorizationAlwaysSent ==
    (http.done /\ HasToken(http.storage)) =>
        LET sent == http.request.headers
            custom == OptionHeaders(http.options)
        IN  /\ "Authorization" \in DOMAIN sent
            /\ sent.Authorization = <<"Bearer", http.storage.access_token>>
            /\ \A h \in DOMAIN custom \ {"Authorization"} :
                   h \in DOMAIN sent /\ sent[h] = custom[h]
            /\ "ContentType" \notin DOMAIN custom =>
                   "ContentType" \in DOMAIN sent /\ sent.ContentType = "application/json"

\* the completed attempts of a call, as a set of positions
CompletedIn(attempts) == {i \in 1..Len(attempts) : attempts[i].completed_at # None}

\* the best score (null counting as 0) among the completed attempts of test t
BestOf(attempts, t) ==
    LET scores == {IF attempts[i].score = None THEN 0 ELSE attempts[i].score :
                      i \in {j \in CompletedIn(attempts) : attempts[j].test_id = t}}
    IN  CHOOSE best \in scores : \A other \in scores : other <= best

====
